---- MODULE Spec2Model ----
(***************************************************************************)
(* Verification model of the zoekt match pipeline in src/search.go:        *)
(* docIterator.next (candidate scanner), candidateMatch.caseMatches,       *)
(* contentProvider (lazy per-document caches), fillMatches /               *)
(* fillContentMatches (line assembly), matchScore / findSection and the    *)
(* score sorts.  Go slices are 0-based; At(s, i) reads element i.          *)
(* Integers are unbounded here: every offset of the model is far below     *)
(* 2^32, so uint32 wrap-around never occurs within the bounds.             *)
(***************************************************************************)
EXTENDS Integers, Sequences, FiniteSets, TLC

\* ---------------------------------------------------------------- bounds
MaxPos == 8        \* largest shard size (bytes) of the scanner model
MaxDocs == 2       \* most documents in a shard of the scanner model
MaxList == 2       \* most entries of one position list
MaxPatLen == 4     \* longest pattern of the scanner model

\* ------------------------------------------------------- program constants
NGRAM == 3

\* ---------------------------------------------------------------- helpers
Nil == "nil"
\* A Go slice: nil or not, and its elements (a nil slice has none).
NilSlice == [nil |-> TRUE, v |-> <<>>]
Slice(v) == [nil |-> FALSE, v |-> v]
Range(s) == {s[i] : i \in 1..Len(s)}
At(s, i) == s[i + 1]
Min(a, b) == IF a < b THEN a ELSE b

\* Strictly ascending sequences over S with at most n entries.
RECURSIVE SetToSeq(_)
SetToSeq(S) ==
    IF S = {} THEN <<>>
    ELSE LET m == CHOOSE x \in S : \A y \in S : x <= y
         IN <<m>> \o SetToSeq(S \ {m})
AscLists(S, n) == {SetToSeq(T) : T \in {U \in SUBSET S : Cardinality(U) <= n}}

VARIABLES
    \* docIterator (src/search.go:290-299) and the result of next()
    first, last, patLen, ends, fileIdx, candidates, scanPc,
    \* the position lists as handed to the iterator (history, for the reference)
    firstIn, lastIn,
    \* candidateMatch under case verification (src/search.go:301-311): the query's
    \* CaseSensitive flag, substrBytes, offset, the cached caseMask / caseBits,
    \* the document's packed case bitmap, and the value caseMatches returned
    caseSensitive, substrBytes, mOffset, mCaseMask, mCaseBits, fileCaseBits,
    caseResult, casePc,
    \* the bitmap bits changed since the bitmap agreed with the pattern (history)
    flipped,
    \* indexData as far as the provider reads it, and whether its decoders hand
    \* back nil (rather than an empty slice) for an empty table
    id, nilEmpty,
    \* contentProvider (src/search.go:27-40): prov holds err, idx, _cb, _data, _nl,
    \* _nlBuf, _sects and fileSize; stats is the Stats it points to
    prov, stats,
    \* per accessor, the decodes since the last setDocument; the Stats at that
    \* setDocument; whether a decode has failed since then (history)
    reads, statsAtSet, failed,
    \* what the last accessor call returned
    ret,
    \* the scorer's arguments (sections, Match) and the score it returned
    scSecs, scMatch, scScore, scPc,
    \* the slice under sort.Sort, which sort function runs, the library's
    \* small-slice routine, and the slice as it was handed in (history)
    sortData, sortKind, sortImpl, sortPc, sortIn,
    \* fillMatches / fillContentMatches: the queue ms, the Matches built, the
    \* position in the code, the locals start, end, num, endMatch, lineCands of
    \* the pass under way, and the candidates as handed in (history)
    ms, result, fmPc, lStart, lEnd, lNum, lEndMatch, lineCands, msIn

scanVars == <<first, last, patLen, ends, fileIdx, candidates, scanPc, firstIn, lastIn>>
caseVars == <<caseSensitive, substrBytes, mOffset, mCaseMask, mCaseBits, fileCaseBits,
              caseResult, casePc, flipped>>
provVars == <<id, nilEmpty, prov, stats, reads, statsAtSet, failed, ret>>
scoreVars == <<scSecs, scMatch, scScore, scPc>>
sortVars == <<sortData, sortKind, sortImpl, sortPc, sortIn>>
fillVars == <<ms, result, fmPc, lStart, lEnd, lNum, lEndMatch, lineCands, msIn>>
vars == <<scanVars, caseVars, provVars, scoreVars, sortVars, fillVars>>

\* Values of the variables of a component that a specification does not run.
ScanIdle ==
    /\ first = <<>> /\ last = <<>> /\ patLen = NGRAM /\ ends = <<>> /\ fileIdx = 0
    /\ candidates = <<>> /\ scanPc = "idle" /\ firstIn = <<>> /\ lastIn = <<>>
CaseIdle ==
    /\ caseSensitive = FALSE /\ substrBytes = <<>> /\ mOffset = 0 /\ mCaseMask = <<>>
    /\ mCaseBits = <<>> /\ fileCaseBits = <<>> /\ caseResult = Nil /\ casePc = "idle"
    /\ flipped = {}
ScoreIdle == scSecs = <<>> /\ scMatch = Nil /\ scScore = 0 /\ scPc = "idle"
SortIdle ==
    /\ sortData = <<>> /\ sortKind = "idle" /\ sortImpl = "idle" /\ sortPc = "idle" /\ sortIn = <<>>
FillIdle ==
    /\ ms = <<>> /\ result = <<>> /\ fmPc = "idle" /\ lStart = 0 /\ lEnd = 0 /\ lNum = 0
    /\ lEndMatch = 0 /\ lineCands = <<>> /\ msIn = <<>>
NoReads == [readContents |-> 0, readCaseBits |-> 0, readNewlines |-> 0, readDocSections |-> 0]
ProvIdle ==
    /\ id = Nil /\ nilEmpty = FALSE /\ prov = Nil /\ stats = Nil /\ reads = NoReads
    /\ statsAtSet = Nil /\ failed = FALSE /\ ret = NilSlice

\* ================================================================ scanner
\* A shard: strictly increasing fileEnds, one entry per document.
Shards == {e \in AscLists(1..MaxPos, MaxDocs) : Len(e) >= 1}

ScanInit ==
    /\ ends \in Shards
    /\ patLen \in NGRAM..MaxPatLen
    /\ LET lists == AscLists(0..(ends[Len(ends)] - 1), MaxList)
       IN firstIn \in lists /\ lastIn \in lists
    /\ first = firstIn
    /\ last = lastIn
    /\ fileIdx = 0
    /\ candidates = <<>>
    /\ scanPc = "loop"
    /\ CaseIdle /\ ProvIdle /\ ScoreIdle /\ SortIdle /\ FillIdle

\* distance := s.patLen - NGRAM
DistanceNoNgram(pl) == pl
Distance(pl) == pl - NGRAM

\* for s.fileIdx < len(s.ends) && s.ends[s.fileIdx] <= p1 { s.fileIdx++ }
RECURSIVE AdvanceFileIdx(_, _, _)
AdvanceFileIdx(e, fi, p1) ==
    IF fi < Len(e) /\ At(e, fi) <= p1 THEN AdvanceFileIdx(e, fi + 1, p1) ELSE fi

\* if p1+uint32(s.patLen) >= s.ends[s.fileIdx] { continue }
StraddlesNoLen(p1, pl, end) == p1 >= end
Straddles(p1, pl, end) == p1 + pl >= end

\* fileStart := 0; if s.fileIdx > 0 { fileStart += s.ends[s.fileIdx-1] }
FileStart(e, fi) == IF fi > 0 THEN At(e, fi - 1) ELSE 0

\* One pass of the for loop of docIterator.next with both lists non-empty.
ScanStep ==
    /\ scanPc = "loop"
    /\ Len(first) > 0 /\ Len(last) > 0
    /\ LET p1 == Head(first)
           p2 == Head(last)
           fi == AdvanceFileIdx(ends, fileIdx, p1)
       IN /\ fileIdx' = fi
          /\ IF p1 + Distance(patLen) < p2
             THEN /\ first' = Tail(first)
                  /\ UNCHANGED <<last, candidates>>
             ELSE IF p1 + Distance(patLen) > p2
             THEN /\ last' = Tail(last)
                  /\ UNCHANGED <<first, candidates>>
             ELSE /\ first' = Tail(first)
                  /\ last' = Tail(last)
                  /\ IF Straddles(p1, patLen, At(ends, fi))
                     THEN UNCHANGED candidates
                     ELSE candidates' = Append(candidates,
                              [file |-> fi, offset |-> p1 - FileStart(ends, fi)])
    /\ UNCHANGED <<patLen, ends, scanPc, firstIn, lastIn, caseVars, provVars, scoreVars,
                   sortVars, fillVars>>

\* if len(s.first) == 0 || len(s.last) == 0 { break } ... return candidates
ScanReturn ==
    /\ scanPc = "loop"
    /\ (Len(first) = 0 \/ Len(last) = 0)
    /\ scanPc' = "done"
    /\ UNCHANGED <<first, last, patLen, ends, fileIdx, candidates, firstIn, lastIn, caseVars,
                   provVars, scoreVars, sortVars, fillVars>>

ScanNext == ScanStep \/ ScanReturn
SpecScan == ScanInit /\ [][ScanNext]_vars
\* ------------------------------------------------------- scanner claims
\* Document geometry read off fileEnds alone (fileEnds[-1] = 0).
DocStart(e, d) == IF d = 0 THEN 0 ELSE At(e, d - 1)
DocLength(e, d) == At(e, d) - DocStart(e, d)
DocOf(e, p) == CHOOSE d \in 0..(Len(e) - 1) : DocStart(e, d) <= p /\ p < At(e, d)

\* C1: every candidate emitted by docIterator.next lies inside the document
\* it is attributed to: offset + patLen <= fileEnds[file] - fileEnds[file-1].
C1_NoStraddle ==
    \A i \in 1..Len(candidates) :
        /\ candidates[i].file \in 0..(Len(ends) - 1)
        /\ candidates[i].offset >= 0
        /\ candidates[i].offset + patLen <= DocLength(ends, candidates[i].file)

\* A candidate in a document other than the first has been emitted.
C1_Witness ==
    \E i \in 1..Len(candidates) : candidates[i].file > 0 /\ candidates[i].offset > 0

\* The reference filter of the scanner: the entries p1 of first, in order,
\* with p1 + (patLen - NGRAM) in last and p1 + patLen < fileEnds[doc(p1)].
RefKeep(p) ==
    /\ (p + (patLen - NGRAM)) \in Range(lastIn)
    /\ p + patLen < At(ends, DocOf(ends, p))
RefCandidate(p) == [file |-> DocOf(ends, p), offset |-> p - DocStart(ends, DocOf(ends, p))]
RefOutput ==
    LET kept == SelectSeq(firstIn, RefKeep)
    IN [i \in 1..Len(kept) |-> RefCandidate(kept[i])]

\* C2: when next() returns, its candidates are exactly the reference filter's
\* output, in order; at every point the candidates emitted so far are ordered
\* by document index, then by offset.
C2_EqualsReference ==
    /\ scanPc = "done" => candidates = RefOutput
    /\ \A i, j \in 1..Len(candidates) :
          i < j => \/ candidates[i].file < candidates[j].file
                   \/ /\ candidates[i].file = candidates[j].file
                      /\ candidates[i].offset <= candidates[j].offset

\* The scan has returned after discarding a boundary-straddling match of the
\* first document and emitting a match of a later one, with a positive
\* distance between the two trigrams.
C2_Witness ==
    /\ scanPc = "done"
    /\ patLen > NGRAM
    /\ Len(candidates) = 1
    /\ candidates[1].file > 0
    /\ \E i \in 1..Len(firstIn) :
          /\ (firstIn[i] + (patLen - NGRAM)) \in Range(lastIn)
          /\ ~RefKeep(firstIn[i])
\* ========================================================== case verifier
MaxCasePat == 4     \* longest pattern of the case-verifier model
CaseDocLen == 16    \* bytes of the document whose case bitmap is tested

\* Bytes are numbers 0..255; bit k of the bitmap is bit (k mod 8), counted
\* from the least significant, of byte (k div 8).
Pow2(k) == 2 ^ k
BitOf(b, k) == (b \div Pow2(k)) % 2
AndByte(a, b) ==
    LET And(k) == Pow2(k) * BitOf(a, k) * BitOf(b, k)
    IN And(0) + And(1) + And(2) + And(3) + And(4) + And(5) + And(6) + And(7)
RECURSIVE SumPow2(_)
SumPow2(S) ==
    IF S = {} THEN 0 ELSE LET k == CHOOSE x \in S : TRUE IN Pow2(k) + SumPow2(S \ {k})
BitmapBit(bm, k) == BitOf(At(bm, k \div 8), k % 8)
FlipBitmapBit(bm, k) ==
    [bm EXCEPT ![(k \div 8) + 1] =
        IF BitOf(@, k % 8) = 1 THEN @ - Pow2(k % 8) ELSE @ + Pow2(k % 8)]

\* The alphabet of pattern bytes: a lower-case and an upper-case letter.
PatBytes == {"a", "B"}
IsUpper(c) == c \in {"A", "B"}
\* The case signature of the pattern: bit j is set iff byte j is upper case.
CaseSig(str, j) == IF IsUpper(At(str, j)) THEN 1 ELSE 0

\* findCaseMasks: for each alignment i in 0..7 a byte-aligned (mask, bits)
\* pair covering bits [i, i + len(pattern)) of (len + i + 7) / 8 bytes.
FindCaseMasks(str) ==
    LET n == Len(str)
        nbytes(i) == (n + i + 7) \div 8
        covered(i, j) == {b \in 0..7 : i <= 8 * j + b /\ 8 * j + b < i + n}
        mask(i) == [j1 \in 1..nbytes(i) |-> SumPow2(covered(i, j1 - 1))]
        bits(i) == [j1 \in 1..nbytes(i) |->
                      SumPow2({b \in covered(i, j1 - 1) :
                                  CaseSig(str, 8 * (j1 - 1) + b - i) = 1})]
    IN [mask |-> [i1 \in 1..8 |-> mask(i1 - 1)], bits |-> [i1 \in 1..8 |-> bits(i1 - 1)]]

\* populateCaseBits: the masks are derived once and cached on the candidate
\* (a nil caseMask is the empty sequence).
PopulateCaseBits(cs, str, mask, bits) ==
    IF ~cs \/ mask # <<>> THEN [mask |-> mask, bits |-> bits] ELSE FindCaseMasks(str)

\* startExtend := m.offset % 8
StartExtendNone(off) == 0
StartExtend(off) == off % 8
\* endExtend := (8 - (patEnd % 8)) % 8
EndExtend(patEnd) == (8 - (patEnd % 8)) % 8

\* for i := range fileBits { if fileBits[i]&mask[i] != bits[i] { return false } }
\* An index past the end of mask or bits panics.
RECURSIVE CompareBits(_, _, _, _)
CompareBits(fileBits, mask, bits, i) ==
    IF i >= Len(fileBits) THEN "true"
    ELSE IF i >= Len(mask) \/ i >= Len(bits) THEN "panic"
    ELSE IF AndByte(At(fileBits, i), At(mask, i)) # At(bits, i) THEN "false"
    ELSE CompareBits(fileBits, mask, bits, i + 1)

\* candidateMatch.caseMatches, given the populated masks.
CaseMatches(cs, str, off, cm, fcb) ==
    IF ~cs THEN "true"
    ELSE LET pl == Len(str)
             startExtend == StartExtend(off)
             patEnd == off + pl
             endExtend == EndExtend(patEnd)
             start == off - startExtend
             end == off + pl + endExtend
         IN IF end \div 8 > Len(fcb) THEN "panic"
            ELSE CompareBits(SubSeq(fcb, (start \div 8) + 1, end \div 8),
                             At(cm.mask, startExtend), At(cm.bits, startExtend), 0)

\* A packed bitmap of CaseDocLen bits in which the bits of [off, off + len)
\* are the pattern's signature and every other bit is bg.
AgreeingBitmap(str, off, bg) ==
    LET nb == (CaseDocLen + 7) \div 8
        bit(k) == IF off <= k /\ k < off + Len(str) THEN CaseSig(str, k - off) ELSE bg
    IN [j1 \in 1..nb |-> SumPow2({b \in 0..7 : bit(8 * (j1 - 1) + b) = 1})]

CaseInit ==
    /\ caseSensitive \in BOOLEAN
    /\ substrBytes \in UNION {[1..n -> PatBytes] : n \in NGRAM..MaxCasePat}
    /\ mOffset \in 0..(CaseDocLen - Len(substrBytes))
    /\ \E bg \in {0, 1} : fileCaseBits = AgreeingBitmap(substrBytes, mOffset, bg)
    /\ mCaseMask = <<>> /\ mCaseBits = <<>>
    /\ caseResult = Nil
    /\ casePc = "ready"
    /\ flipped = {}
    /\ ScanIdle /\ ProvIdle /\ ScoreIdle /\ SortIdle /\ FillIdle

\* The document differs from the agreeing one in the case bit of one byte (or
\* in one padding bit): a single flip, the case the verifier must detect.
CaseFlip(k) ==
    /\ casePc = "ready"
    /\ flipped = {}
    /\ k \notin flipped
    /\ fileCaseBits' = FlipBitmapBit(fileCaseBits, k)
    /\ flipped' = flipped \cup {k}
    /\ UNCHANGED <<caseSensitive, substrBytes, mOffset, mCaseMask, mCaseBits, caseResult, casePc,
                   scanVars, provVars, scoreVars, sortVars, fillVars>>

\* m.caseMatches(fileCaseBits)
CaseVerify ==
    /\ casePc = "ready"
    /\ LET cm == PopulateCaseBits(caseSensitive, substrBytes, mCaseMask, mCaseBits)
       IN /\ mCaseMask' = cm.mask
          /\ mCaseBits' = cm.bits
          /\ caseResult' = CaseMatches(caseSensitive, substrBytes, mOffset, cm, fileCaseBits)
    /\ casePc' = "done"
    /\ UNCHANGED <<caseSensitive, substrBytes, mOffset, fileCaseBits, flipped,
                   scanVars, provVars, scoreVars, sortVars, fillVars>>

CaseNext ==
    \/ \E k \in 0..(8 * Len(fileCaseBits) - 1) : CaseFlip(k)
    \/ CaseVerify
SpecCase == CaseInit /\ [][CaseNext]_vars

\* The bits of the bitmap over [offset, offset + len(P)) are P's signature.
SpanAgrees ==
    \A j \in 0..(Len(substrBytes) - 1) :
        BitmapBit(fileCaseBits, mOffset + j) = CaseSig(substrBytes, j)
Span == mOffset..(mOffset + Len(substrBytes) - 1)

\* C8: caseMatches returns true for a case-insensitive query; for a
\* case-sensitive one it returns true when the bitmap agrees with the
\* pattern's case signature over the span and false when a bit of the span
\* differs, whatever the bits outside the span and the alignment are.
C8_CaseVerifier ==
    casePc = "done" =>
        /\ ~caseSensitive => caseResult = "true"
        /\ caseSensitive /\ SpanAgrees => caseResult = "true"
        /\ caseSensitive /\ ~SpanAgrees => caseResult = "false"
        /\ caseSensitive /\ flipped \cap Span = {} => caseResult = "true"
        /\ caseSensitive /\ Cardinality(flipped \cap Span) = 1 => caseResult = "false"

\* A case-sensitive pattern that crosses a bitmap byte boundary at an odd
\* alignment has been rejected because of one flipped bit inside its span.
C8_Witness ==
    /\ casePc = "done" /\ caseSensitive
    /\ mOffset % 8 = 6
    /\ Cardinality(flipped \cap Span) = 1
    /\ caseResult = "false"
\* ======================================================= content provider
MaxReads == 2         \* most decodes of one kind between two setDocument calls
MaxFilesLoaded == 3   \* largest Stats.FilesLoaded the provider model reaches

\* Letter case of the bytes of the model's alphabet.
ToLowerByte(c) == IF c = "A" THEN "a" ELSE IF c = "B" THEN "b" ELSE c
ToUpperByte(c) == IF c = "a" THEN "A" ELSE IF c = "b" THEN "B" ELSE c
ToLower(bs) == [i \in 1..Len(bs) |-> ToLowerByte(bs[i])]

\* The index of one document: lowered content, packed case bits (bit k set
\* iff byte k was upper case), the offsets of its line terminators, its
\* symbol sections, and the same for its name.
PackCaseBits(orig) ==
    [j1 \in 1..((Len(orig) + 7) \div 8) |->
        SumPow2({b \in 0..7 : 8 * (j1 - 1) + b < Len(orig)
                               /\ IsUpper(At(orig, 8 * (j1 - 1) + b))})]
NewlineOffsets(orig) == SetToSeq({i \in 0..(Len(orig) - 1) : At(orig, i) = "\n"})
IndexDoc(orig, name, sects) ==
    [content |-> ToLower(orig), caseBits |-> PackCaseBits(orig),
     newlines |-> NewlineOffsets(orig), sects |-> sects,
     fileNameContent |-> ToLower(name), fileNameCaseBits |-> PackCaseBits(name),
     fileName |-> name]
RECURSIVE FileEnds(_)
FileEnds(docs) ==
    IF docs = <<>> THEN <<>>
    ELSE LET front == FileEnds(SubSeq(docs, 1, Len(docs) - 1))
         IN Append(front, (IF front = <<>> THEN 0 ELSE front[Len(front)])
                          + Len(docs[Len(docs)].content))
IndexData(docs) == [fileEnds |-> FileEnds(docs), docs |-> docs]

\* What a decoder of the index reader hands back: (nil, error) on failure,
\* else the table (nil for an empty one if the decoder is of that kind).
ReadResult(value, fail) ==
    IF fail THEN [v |-> NilSlice, err |-> "decode error"]
    ELSE [v |-> IF value = <<>> /\ nilEmpty THEN NilSlice ELSE Slice(value), err |-> Nil]

\* The provider with the Stats it points to and the history variables.
World == [p |-> prov, stats |-> stats, reads |-> reads, failed |-> failed]
Commit(W) == prov' = W.p /\ stats' = W.stats /\ reads' = W.reads /\ failed' = W.failed
CurDoc(W) == At(id.docs, W.p.idx)

\* func (p *contentProvider) setDocument(docID uint32)
SetDocument(P, docID) ==
    LET fileStart == IF docID > 0 THEN At(id.fileEnds, docID - 1) ELSE 0
    IN [P EXCEPT !.idx = docID,
                 !.fileSize = At(id.fileEnds, docID) - fileStart,
                 !.nl = NilSlice, !.sects = NilSlice, !.data = NilSlice, !.cb = NilSlice]

\* func (p *contentProvider) docSections() []DocumentSection
DocSections(W, fail) ==
    IF W.p.sects.nil
    THEN LET r == ReadResult(CurDoc(W).sects, fail)
         IN [W EXCEPT !.p.sects = r.v, !.p.err = r.err,
                      !.reads.readDocSections = @ + 1, !.failed = @ \/ fail]
    ELSE W

\* func (p *contentProvider) newlines() []uint32
Newlines(W, fail) ==
    IF W.p.nl.nil
    THEN LET r == ReadResult(CurDoc(W).newlines, fail)
         IN [W EXCEPT !.p.nl = r.v, !.p.err = r.err, !.p.nlBuf = r.v,
                      !.reads.readNewlines = @ + 1, !.failed = @ \/ fail]
    ELSE W

\* func (p *contentProvider) data(fileName bool) []byte: the effect ...
Data(W, fileName, fail) ==
    IF fileName THEN W
    ELSE IF W.p.data.nil
    THEN LET r == ReadResult(CurDoc(W).content, fail)
         IN [W EXCEPT !.p.data = r.v, !.p.err = r.err,
                      !.stats.FilesLoaded = @ + 1,
                      !.stats.BytesLoaded = @ + Len(r.v.v),
                      !.reads.readContents = @ + 1, !.failed = @ \/ fail]
    ELSE W
\* ... and the bytes returned
DataOf(W, fileName) == IF fileName THEN Slice(CurDoc(W).fileNameContent) ELSE W.p.data

\* func (p *contentProvider) caseBits(fileName bool) []byte
CaseBits(W, fileName, fail) ==
    IF fileName THEN W
    ELSE IF W.p.cb.nil
    THEN LET r == ReadResult(CurDoc(W).caseBits, fail)
         IN [W EXCEPT !.p.cb = r.v, !.p.err = r.err,
                      !.reads.readCaseBits = @ + 1, !.failed = @ \/ fail]
    ELSE W
CaseBitsOf(W, fileName) == IF fileName THEN Slice(CurDoc(W).fileNameCaseBits) ELSE W.p.cb

\* A provider as constructed: no document decoded, no error, Stats at zero.
NewProvider ==
    [err |-> Nil, idx |-> 0, cb |-> NilSlice, data |-> NilSlice, nl |-> NilSlice,
     nlBuf |-> NilSlice, sects |-> NilSlice, fileSize |-> 0]
ZeroStats == [FilesLoaded |-> 0, BytesLoaded |-> 0]

\* The shard of the provider model: a two-line document with a symbol, and a
\* one-line document without symbols.
ProvShard ==
    IndexData(<<IndexDoc(<<"a", "B", "\n", "a">>, <<"a", "B">>, <<[Start |-> 0, End |-> 2]>>),
                IndexDoc(<<"a">>, <<"B">>, <<>>)>>)
ProvInit ==
    /\ id = ProvShard
    /\ nilEmpty \in BOOLEAN
    /\ prov = NewProvider
    /\ stats = ZeroStats
    /\ reads = NoReads
    /\ statsAtSet = ZeroStats
    /\ failed = FALSE
    /\ ret = NilSlice
    /\ ScanIdle /\ CaseIdle /\ ScoreIdle /\ SortIdle /\ FillIdle

\* Decodes are counted up to MaxReads and Stats.FilesLoaded up to
\* MaxFilesLoaded: a call that would pass either is not taken.
CanRead(W) ==
    /\ \A k \in DOMAIN W.reads : W.reads[k] <= MaxReads
    /\ W.stats.FilesLoaded <= MaxFilesLoaded

PSetDocument(docID) ==
    /\ prov' = SetDocument(prov, docID)
    /\ reads' = NoReads
    /\ statsAtSet' = stats
    /\ failed' = FALSE
    /\ ret' = NilSlice
    /\ UNCHANGED <<id, nilEmpty, stats, scanVars, caseVars, scoreVars, sortVars, fillVars>>

PDocSections(fail) ==
    LET W == DocSections(World, fail)
    IN /\ CanRead(W) /\ Commit(W) /\ ret' = W.p.sects
       /\ UNCHANGED <<id, nilEmpty, statsAtSet, scanVars, caseVars, scoreVars, sortVars, fillVars>>

PNewlines(fail) ==
    LET W == Newlines(World, fail)
    IN /\ CanRead(W) /\ Commit(W) /\ ret' = W.p.nl
       /\ UNCHANGED <<id, nilEmpty, statsAtSet, scanVars, caseVars, scoreVars, sortVars, fillVars>>

PData(fileName, fail) ==
    LET W == Data(World, fileName, fail)
    IN /\ CanRead(W) /\ Commit(W) /\ ret' = DataOf(W, fileName)
       /\ UNCHANGED <<id, nilEmpty, statsAtSet, scanVars, caseVars, scoreVars, sortVars, fillVars>>

PCaseBits(fileName, fail) ==
    LET W == CaseBits(World, fileName, fail)
    IN /\ CanRead(W) /\ Commit(W) /\ ret' = CaseBitsOf(W, fileName)
       /\ UNCHANGED <<id, nilEmpty, statsAtSet, scanVars, caseVars, scoreVars, sortVars, fillVars>>

ProvNext ==
    \/ \E d \in 0..(Len(id.docs) - 1) : PSetDocument(d)
    \/ \E fail \in BOOLEAN : PDocSections(fail)
    \/ \E fail \in BOOLEAN : PNewlines(fail)
    \/ \E fileName \in BOOLEAN, fail \in BOOLEAN : PData(fileName, fail)
    \/ \E fileName \in BOOLEAN, fail \in BOOLEAN : PCaseBits(fileName, fail)
SpecProvider == ProvInit /\ [][ProvNext]_vars

\* C4: once a decode of the current document has failed, the provider's err
\* stays non-nil through every later accessor call on that document.
C4_ErrorLatched == failed => prov.err # Nil

\* C5: between two setDocument calls every decoder runs at most once, and
\* Stats grows by at most one file and the document's content length.
C5_DecodeOnce ==
    /\ \A k \in DOMAIN reads : reads[k] <= 1
    /\ stats.FilesLoaded - statsAtSet.FilesLoaded <= 1
    /\ stats.BytesLoaded - statsAtSet.BytesLoaded <= Len(At(id.docs, prov.idx).content)
\* ================================================================= scorer
MaxLine == 3      \* longest Match.Line of the scorer model
MaxFrags == 2     \* most fragments of one Match
MaxSecs == 2      \* most sections of a document
MaxLineStart == 1 \* largest LineStart of the scored Match

scorePartialWordMatch == 50
scoreWordMatch == 500
scorePartialSymbol == 4000
scoreSymbol == 7000

\* byteClass: identifier-like bytes against all others.
ByteClass(c) == IF c \in {"a", "b", "A", "B"} THEN "word" ELSE "other"

\* sort.Search(n, f): the smallest i in [0, n] with f(i), by bisection; f is
\* given as the function h |-> f(h) on 0..n-1.
RECURSIVE SearchLoop(_, _, _)
SearchLoop(f, i, j) ==
    IF i < j
    THEN LET h == (i + j) \div 2
         IN IF ~f[h] THEN SearchLoop(f, h + 1, j) ELSE SearchLoop(f, i, h)
    ELSE i
SortSearch(n, f) == SearchLoop(f, 0, n)

\* return secs[i].End >= off+sz
SectionEndsAfter(sec, off, sz) == sec.End > off + sz
SectionEndsAtOrAfter(sec, off, sz) == sec.End >= off + sz

\* func findSection(secs []DocumentSection, off, sz uint32) *DocumentSection
FindSection(secs, off, sz) ==
    LET j == SortSearch(Len(secs),
                        [i \in 0..(Len(secs) - 1) |-> SectionEndsAtOrAfter(At(secs, i), off, sz)])
    IN IF j = Len(secs) THEN [found |-> FALSE]
       ELSE IF At(secs, j).Start <= off /\ off + sz <= At(secs, j).End
       THEN [found |-> TRUE, sec |-> At(secs, j)]
       ELSE [found |-> FALSE]

\* The body of matchScore's loop: the score of one fragment.
FragmentScore(secs, m, f) ==
    LET startBoundary ==
            /\ f.LineOff < Len(m.Line)
            /\ \/ f.LineOff = 0
               \/ ByteClass(At(m.Line, f.LineOff - 1)) # ByteClass(At(m.Line, f.LineOff))
        end == f.LineOff + f.MatchLength
        endBoundary ==
            /\ end > 0
            /\ \/ end = Len(m.Line)
               \/ ByteClass(At(m.Line, end - 1)) # ByteClass(At(m.Line, end))
        score == IF startBoundary /\ endBoundary THEN scoreWordMatch
                 ELSE IF startBoundary \/ endBoundary THEN scorePartialWordMatch
                 ELSE 0
        found == FindSection(secs, f.Offset, f.MatchLength)
    IN IF found.found
       THEN LET startMatch == found.sec.Start = f.Offset
                endMatch == found.sec.End = f.Offset + f.MatchLength
            IN IF startMatch /\ endMatch THEN score + scoreSymbol
               ELSE IF startMatch \/ endMatch
               THEN score + ((scoreSymbol + scorePartialSymbol) \div 2)
               ELSE score + scorePartialSymbol
       ELSE score

\* func matchScore(secs []DocumentSection, m *Match) float64
RECURSIVE MaxScoreFrom(_, _, _, _)
MaxScoreFrom(secs, m, i, maxScore) ==
    IF i > Len(m.Fragments) THEN maxScore
    ELSE LET score == FragmentScore(secs, m, m.Fragments[i])
         IN MaxScoreFrom(secs, m, i + 1, IF score > maxScore THEN score ELSE maxScore)
MatchScore(secs, m) == MaxScoreFrom(secs, m, 1, 0)

\* Inputs of the scorer: a line of word and non-word bytes, fragments of one
\* length at ascending offsets inside it, and sections sorted by End that do
\* not overlap.
ScoreBytes == {"a", " "}
ScoreLines == UNION {[1..n -> ScoreBytes] : n \in 1..MaxLine}
FragmentLists(lineLen, lineStart) ==
    UNION {{[i \in 1..Len(offs) |->
                [Offset |-> lineStart + offs[i], LineOff |-> offs[i], MatchLength |-> sz]]
            : offs \in AscLists(0..(lineLen - sz), MaxFrags) \ {<<>>}}
           : sz \in 1..lineLen}
Intervals(n) == {iv \in [Start : 0..n, End : 0..n] : iv.Start < iv.End}
SectionLists(n) ==
    UNION {{secs \in [1..k -> Intervals(n)] :
               \A i \in 1..(k - 1) : secs[i].End <= secs[i + 1].Start}
           : k \in 0..MaxSecs}

ScoreInit ==
    /\ \E line \in ScoreLines, lineStart \in 0..MaxLineStart :
          /\ \E frags \in FragmentLists(Len(line), lineStart) :
                scMatch = [Line |-> line, FileName |-> FALSE, LineStart |-> lineStart,
                           LineEnd |-> lineStart + Len(line), LineNum |-> 1,
                           Fragments |-> frags, Score |-> 0]
          /\ scSecs \in SectionLists(lineStart + Len(line))
    /\ scScore = 0
    /\ scPc = "ready"
    /\ ScanIdle /\ CaseIdle /\ ProvIdle /\ SortIdle /\ FillIdle

\* score := matchScore(secs, &m)
Score ==
    /\ scPc = "ready"
    /\ scScore' = MatchScore(scSecs, scMatch)
    /\ scPc' = "done"
    /\ UNCHANGED <<scSecs, scMatch, scanVars, caseVars, provVars, sortVars, fillVars>>

ScoreNext == Score
SpecScore == ScoreInit /\ [][ScoreNext]_vars

\* The score of a fragment as the scorer's contract states it.
RefWordScore(m, f) ==
    LET e == f.LineOff + f.MatchLength
        startB == f.LineOff = 0 \/ ByteClass(m.Line[f.LineOff]) # ByteClass(m.Line[f.LineOff + 1])
        endB == e = Len(m.Line) \/ ByteClass(m.Line[e]) # ByteClass(m.Line[e + 1])
    IN IF startB /\ endB THEN 500 ELSE IF startB # endB THEN 50 ELSE 0
RefSymbolScore(secs, f) ==
    LET e == f.Offset + f.MatchLength
        holding == {s \in Range(secs) : s.Start <= f.Offset /\ e <= s.End}
    IN IF holding = {} THEN 0
       ELSE LET s == CHOOSE x \in holding : TRUE
                hits == (IF s.Start = f.Offset THEN 1 ELSE 0) + (IF s.End = e THEN 1 ELSE 0)
            IN IF hits = 2 THEN 7000 ELSE IF hits = 1 THEN 5500 ELSE 4000
RefFragmentScores(secs, m) ==
    {RefWordScore(m, m.Fragments[i]) + RefSymbolScore(secs, m.Fragments[i])
        : i \in 1..Len(m.Fragments)}

\* C7: matchScore returns the largest fragment score, a fragment's score being
\* its word score (500 / 50 / 0) plus its symbol score (7000 / 5500 / 4000 / 0).
C7_MatchScore ==
    scPc = "done" =>
        /\ scScore \in RefFragmentScores(scSecs, scMatch)
        /\ \A x \in RefFragmentScores(scSecs, scMatch) : x <= scScore

\* A Match scored 7500 by a full-word fragment spanning a section exactly,
\* with a second fragment that scores too: the result is the maximum, not the sum.
C7_Witness ==
    /\ scPc = "done"
    /\ scScore = 7500
    /\ Len(scMatch.Fragments) = 2
    /\ \E x \in RefFragmentScores(scSecs, scMatch) : 0 < x /\ x < 7500
\* ============================================================ score sorts
MaxSortLen == 7   \* longest slice handed to a sort
MaxScore == 2     \* scores of the sorted elements are 1..MaxScore

\* func (m matchScoreSlice) Less(i, j int) bool { return m[i].Score > m[j].Score }
LessAscending(m, i, j) == At(m, i).Score < At(m, j).Score
matchScoreSliceLess(m, i, j) == At(m, i).Score > At(m, j).Score
\* func (m fileMatchSlice) Less(i, j int) bool { return m[i].Score > m[j].Score }
fileMatchSliceLess(m, i, j) == At(m, i).Score > At(m, j).Score
Less(kind, m, i, j) ==
    IF kind = "matches" THEN matchScoreSliceLess(m, i, j) ELSE fileMatchSliceLess(m, i, j)
\* Swap(i, j): m[i], m[j] = m[j], m[i]
Swap(m, i, j) == [m EXCEPT ![i + 1] = m[j + 1], ![j + 1] = m[i + 1]]

\* sort.Sort on a slice of at most 12 elements, as the Go library runs it:
\*   insertionSort(data, a, b):
\*     for i := a + 1; i < b; i++ {
\*       for j := i; j > a && data.Less(j, j-1); j-- { data.Swap(j, j-1) } }
RECURSIVE InsertInner(_, _, _, _)
InsertInner(kind, m, a, j) ==
    IF j > a /\ Less(kind, m, j, j - 1)
    THEN InsertInner(kind, Swap(m, j, j - 1), a, j - 1)
    ELSE m
RECURSIVE InsertionSort(_, _, _, _)
InsertionSort(kind, m, i, b) ==
    IF i < b THEN InsertionSort(kind, InsertInner(kind, m, 0, i), i + 1, b) ELSE m
\*   and, in the releases whose quickSort ends with a ShellSort pass of gap 6:
\*     for i := a + 6; i < b; i++ { if data.Less(i, i-6) { data.Swap(i, i-6) } }
RECURSIVE ShellPass(_, _, _, _)
ShellPass(kind, m, i, b) ==
    IF i < b
    THEN ShellPass(kind, IF Less(kind, m, i, i - 6) THEN Swap(m, i, i - 6) ELSE m, i + 1, b)
    ELSE m
SortSort(kind, impl, m) ==
    IF Len(m) <= 1 THEN m
    ELSE IF impl = "shellThenInsertion"
    THEN InsertionSort(kind, ShellPass(kind, m, 6, Len(m)), 1, Len(m))
    ELSE InsertionSort(kind, m, 1, Len(m))

\* Elements carry their Score and, standing for the rest of the Match or
\* FileMatch, the position they had in the input.
SortInputs ==
    UNION {{[i \in 1..n |-> [id |-> i, Score |-> sc[i]]] : sc \in [1..n -> 1..MaxScore]}
           : n \in 0..MaxSortLen}

SortInit ==
    /\ sortIn \in SortInputs
    /\ sortData = sortIn
    /\ sortKind \in {"matches", "files"}
    /\ sortImpl \in {"insertion", "shellThenInsertion"}
    /\ sortPc = "ready"
    /\ ScanIdle /\ CaseIdle /\ ProvIdle /\ ScoreIdle /\ FillIdle

\* func sortMatchesByScore(ms []Match) { sort.Sort(matchScoreSlice(ms)) }
sortMatchesByScore ==
    /\ sortPc = "ready" /\ sortKind = "matches"
    /\ sortData' = SortSort("matches", sortImpl, sortData)
    /\ sortPc' = "done"
    /\ UNCHANGED <<sortKind, sortImpl, sortIn, scanVars, caseVars, provVars, scoreVars, fillVars>>

\* func sortFilesByScore(ms []FileMatch) { sort.Sort(fileMatchSlice(ms)) }
sortFilesByScore ==
    /\ sortPc = "ready" /\ sortKind = "files"
    /\ sortData' = SortSort("files", sortImpl, sortData)
    /\ sortPc' = "done"
    /\ UNCHANGED <<sortKind, sortImpl, sortIn, scanVars, caseVars, provVars, scoreVars, fillVars>>

SortNext == sortMatchesByScore \/ sortFilesByScore
SpecSort == SortInit /\ [][SortNext]_vars

IsPermutationOfInput ==
    /\ Len(sortData) = Len(sortIn)
    /\ \A i \in 1..Len(sortIn) : \E j \in 1..Len(sortData) : sortData[j] = sortIn[i]
NonIncreasing ==
    \A i \in 1..(Len(sortData) - 1) : sortData[i].Score >= sortData[i + 1].Score
TiesKeepInputOrder ==
    \A i, j \in 1..Len(sortData) :
        i < j /\ sortData[i].Score = sortData[j].Score => sortData[i].id < sortData[j].id

\* C6, as amended: both sorts return a permutation of their input that is
\* non-increasing in Score (the order of elements of equal Score is not fixed).
C6_SortedPermutation == sortPc = "done" => IsPermutationOfInput /\ NonIncreasing

\* C6, as stated: ... and elements of equal Score keep their input order.
C6_StableSort ==
    sortPc = "done" => IsPermutationOfInput /\ NonIncreasing /\ TiesKeepInputOrder

\* A sort has reordered an input that had ties and was not in order.
C6_Witness ==
    /\ sortPc = "done"
    /\ sortData # sortIn
    /\ \E i, j \in 1..Len(sortIn) : i < j /\ sortIn[i].Score = sortIn[j].Score
    /\ \E i, j \in 1..Len(sortIn) : i < j /\ sortIn[i].Score < sortIn[j].Score
\* ========================================================== line assembly
MaxLen == 6        \* longest document content (and file name) assembled
MaxMatchSz == 3    \* longest candidate (the shortest is NGRAM)
MaxCands == 2      \* most candidates handed to fillMatches
MaxResult == 3     \* Matches built before the model stops a run

\* func (m *candidateMatch) line(newlines []uint32, fileSize uint32): the
\* line of m.offset as (lineNum, lineStart, lineEnd).
Line(m, newlines, fileSize) ==
    LET idx == SortSearch(Len(newlines),
                          [n \in 0..(Len(newlines) - 1) |-> At(newlines, n) >= m.offset])
        end == IF idx < Len(newlines) THEN At(newlines, idx) ELSE fileSize
        start == IF idx > 0 THEN At(newlines, idx - 1) + 1 ELSE 0
    IN [num |-> idx + 1, start |-> start, end |-> end]

\* if int(m.offset) < end
StartsBefore(m, end) == m.offset < end

\* for len(ms) > 0 { m := ms[0]; if int(m.offset) < end { endMatch = ...;
\*   lineCands = append(lineCands, m); ms = ms[1:] } else { break } }
RECURSIVE GroupLine(_, _, _, _)
GroupLine(q, end, em, cands) ==
    IF Len(q) > 0 /\ StartsBefore(q[1], end)
    THEN GroupLine(Tail(q), end, q[1].offset + q[1].matchSz, Append(cands, q[1]))
    ELSE [ms |-> q, endMatch |-> em, lineCands |-> cands]

\* bytes.IndexByte(b, c): the index of the first c in b, or -1
IndexByte(b, c) ==
    IF \E i \in 1..Len(b) : b[i] = c
    THEN (CHOOSE i \in 1..Len(b) : b[i] = c /\ \A k \in 1..(i - 1) : b[k] # c) - 1
    ELSE -1

\* end = bytes.IndexByte(data[end+1:], '\n'); if end == -1 { end = len(data) }
NextLineEnd(data, end) ==
    LET r == IndexByte(SubSeq(data, end + 2, Len(data)), "\n")
    IN IF r = -1 THEN Len(data) ELSE r

\* toOriginal(out, content, caseBits, start, end): content[start:end] with the
\* bytes whose case bit is set in upper case.
ToOriginal(content, caseBits, start, end) ==
    [i \in 1..(end - start) |->
        IF BitmapBit(caseBits, start + i - 1) = 1
        THEN ToUpperByte(At(content, start + i - 1))
        ELSE At(content, start + i - 1)]

\* MatchFragment{Offset: m.offset, LineOff: int(m.offset) - start, MatchLength: int(m.matchSz)}
Fragment(m, start) ==
    [Offset |-> m.offset, LineOff |-> m.offset - start, MatchLength |-> m.matchSz]

\* The file-name branch of fillMatches: res := Match{Line: fileName, FileName:
\* true}; for _, m := range ms { res.Fragments = append(...); result = []Match{res} }
FileNameMatchesFirstOnly(name, cands) ==
    <<[Line |-> name, FileName |-> TRUE, LineStart |-> 0, LineEnd |-> 0, LineNum |-> 0,
       Fragments |-> <<Fragment(cands[1], 0)>>, Score |-> 0]>>
FileNameMatches(name, cands) ==
    <<[Line |-> name, FileName |-> TRUE, LineStart |-> 0, LineEnd |-> 0, LineNum |-> 0,
       Fragments |-> [i \in 1..Len(cands) |-> Fragment(cands[i], 0)], Score |-> 0]>>

\* for i, m := range result { result[i].Score = matchScore(sects, &m) }
ScoreAll(sects, res) == [i \in 1..Len(res) |-> [res[i] EXCEPT !.Score = MatchScore(sects, res[i])]]

\* Inputs: a text over a lower-case letter, an upper-case letter and the line
\* terminator; candidates of one length at ascending offsets of the indexed
\* text, all on the same lowered bytes (they passed matchContent).
ContentBytes == {"a", "B", "\n"}
Texts == UNION {[1..n -> ContentBytes] : n \in NGRAM..MaxLen}
CandidateLists(text, fileName) ==
    UNION {{[i \in 1..Len(offs) |-> [fileName |-> fileName, offset |-> offs[i], matchSz |-> sz]]
            : offs \in {o \in AscLists(0..(Len(text) - sz), MaxCands) \ {<<>>} :
                          \A i, j \in 1..Len(o) :
                              SubSeq(ToLower(text), o[i] + 1, o[i] + sz)
                                  = SubSeq(ToLower(text), o[j] + 1, o[j] + sz)}}
           : sz \in NGRAM..Min(MaxMatchSz, Len(text))}
OtherText == <<"a", "B", "a">>

FillInit ==
    /\ nilEmpty \in BOOLEAN
    /\ \E text \in Texts, fileName \in BOOLEAN,
          sects \in {<<>>, <<[Start |-> 0, End |-> NGRAM]>>} :
          /\ fileName => "\n" \notin Range(text)
          /\ id = IndexData(<<IF fileName THEN IndexDoc(OtherText, text, sects)
                                          ELSE IndexDoc(text, OtherText, sects)>>)
          /\ msIn \in CandidateLists(text, fileName)
    /\ ms = msIn
    /\ prov = SetDocument(NewProvider, 0)
    /\ stats = ZeroStats /\ statsAtSet = ZeroStats
    /\ reads = NoReads /\ failed = FALSE /\ ret = NilSlice
    /\ result = <<>>
    /\ fmPc = "fillMatches"
    /\ lStart = 0 /\ lEnd = 0 /\ lNum = 0 /\ lEndMatch = 0 /\ lineCands = <<>>
    /\ ScanIdle /\ CaseIdle /\ ScoreIdle /\ SortIdle

fillOthers == <<id, nilEmpty, statsAtSet, ret, msIn, scanVars, caseVars, scoreVars, sortVars>>

\* fillMatches with ms[0].fileName: the single Match of the name, then
\* docSections() and the scores.
FillFileName ==
    /\ fmPc = "fillMatches"
    /\ ms[1].fileName
    /\ LET W == DocSections(World, FALSE)
           res == FileNameMatches(CurDoc(World).fileName, ms)
       IN /\ result' = ScoreAll(W.p.sects.v, res)
          /\ Commit(W)
    /\ fmPc' = "done"
    /\ UNCHANGED <<ms, lStart, lEnd, lNum, lEndMatch, lineCands, fillOthers>>

\* fillMatches otherwise: result = p.fillContentMatches(ms)
FillContent ==
    /\ fmPc = "fillMatches"
    /\ ~ms[1].fileName
    /\ fmPc' = "outer"
    /\ UNCHANGED <<ms, result, lStart, lEnd, lNum, lEndMatch, lineCands, provVars, msIn,
                   scanVars, caseVars, scoreVars, sortVars>>

\* fillContentMatches, one pass of the outer loop up to data := p.data(false):
\* the line of the head candidate and the candidates grouped into it.
LineGroup ==
    /\ fmPc = "outer"
    /\ Len(ms) > 0
    /\ Len(result) < MaxResult
    /\ LET W1 == Newlines(World, FALSE)
           l == Line(ms[1], W1.p.nl.v, W1.p.fileSize)
           g == GroupLine(ms, l.end, ms[1].offset + ms[1].matchSz, <<>>)
           W2 == Data(W1, FALSE, FALSE)
       IN /\ lNum' = l.num /\ lStart' = l.start /\ lEnd' = l.end
          /\ ms' = g.ms /\ lEndMatch' = g.endMatch /\ lineCands' = g.lineCands
          /\ Commit(W2)
    /\ fmPc' = "extend"
    /\ UNCHANGED <<result, fillOthers>>

\* for end < len(data) && endMatch > uint32(end) { end = ... }: one pass
LineExtend ==
    /\ fmPc = "extend"
    /\ lEnd < Len(prov.data.v) /\ lEndMatch > lEnd
    /\ lEnd' = NextLineEnd(prov.data.v, lEnd)
    /\ UNCHANGED <<ms, result, fmPc, lStart, lNum, lEndMatch, lineCands, provVars, msIn,
                   scanVars, caseVars, scoreVars, sortVars>>

\* The rest of the pass: finalMatch with its Line and Fragments is appended.
LineEmit ==
    /\ fmPc = "extend"
    /\ ~(lEnd < Len(prov.data.v) /\ lEndMatch > lEnd)
    /\ LET W1 == Data(World, FALSE, FALSE)
           W2 == CaseBits(W1, FALSE, FALSE)
           finalMatch ==
               [Line |-> ToOriginal(W1.p.data.v, W2.p.cb.v, lStart, lEnd),
                FileName |-> FALSE, LineStart |-> lStart, LineEnd |-> lEnd, LineNum |-> lNum,
                Fragments |-> [i \in 1..Len(lineCands) |-> Fragment(lineCands[i], lStart)],
                Score |-> 0]
       IN /\ result' = Append(result, finalMatch)
          /\ Commit(W2)
    /\ fmPc' = "outer"
    /\ UNCHANGED <<ms, lStart, lEnd, lNum, lEndMatch, lineCands, fillOthers>>

\* The queue is empty: fillContentMatches returns, and fillMatches reads the
\* sections and scores the Matches.
FillScore ==
    /\ fmPc = "outer"
    /\ Len(ms) = 0
    /\ LET W == DocSections(World, FALSE)
       IN /\ result' = ScoreAll(W.p.sects.v, result)
          /\ Commit(W)
    /\ fmPc' = "done"
    /\ UNCHANGED <<ms, lStart, lEnd, lNum, lEndMatch, lineCands, fillOthers>>

FillNext == FillFileName \/ FillContent \/ LineGroup \/ LineExtend \/ LineEmit \/ FillScore
SpecFill == FillInit /\ [][FillNext]_vars
\* ------------------------------------------------------------ fill claims
Content == At(id.docs, 0).content
\* The offset of the first line terminator at or after off, or the content
\* length if there is none.
TerminatorFrom(off) ==
    LET later == {k \in off..(Len(Content) - 1) : At(Content, k) = "\n"}
    IN IF later = {} THEN Len(Content) ELSE CHOOSE k \in later : \A x \in later : k <= x
IsLineEnd(off) == off = Len(Content) \/ (off < Len(Content) /\ At(Content, off) = "\n")
LastEnd(r) == r.Fragments[Len(r.Fragments)].Offset + r.Fragments[Len(r.Fragments)].MatchLength
CrossesLine(r) ==
    /\ ~r.FileName
    /\ Len(r.Fragments) > 0
    /\ LastEnd(r) > TerminatorFrom(r.Fragments[1].Offset)

\* C3: a Match whose grouped candidates end beyond their line's terminator
\* has its LineEnd at a later line terminator (or the content length), at or
\* after the end of the candidates, and LineStart <= LineEnd.
C3_CrossLineEnd ==
    \A i \in 1..Len(result) :
        CrossesLine(result[i]) =>
            /\ IsLineEnd(result[i].LineEnd)
            /\ result[i].LineEnd >= LastEnd(result[i]) \/ result[i].LineEnd = Len(Content)
            /\ result[i].LineStart <= result[i].LineEnd

\* C9, as amended: fillMatches on file-name candidates returns one Match with
\* FileName set, the whole name as its line and no line range, holding one
\* fragment per candidate, in order.
C9_FileNameOneMatch ==
    fmPc = "done" /\ msIn[1].fileName =>
        /\ Len(result) = 1
        /\ result[1].FileName
        /\ result[1].Line = At(id.docs, 0).fileName
        /\ result[1].LineNum = 0 /\ result[1].LineStart = 0 /\ result[1].LineEnd = 0
        /\ Len(result[1].Fragments) = Len(msIn)
        /\ \A i \in 1..Len(msIn) :
              result[1].Fragments[i] = [Offset |-> msIn[i].offset, LineOff |-> msIn[i].offset,
                                        MatchLength |-> msIn[i].matchSz]

\* C9, as stated: ... one Match with FileName set and a single fragment.
C9_FileNameSingleFragment ==
    fmPc = "done" /\ msIn[1].fileName =>
        /\ Len(result) = 1
        /\ result[1].FileName
        /\ Len(result[1].Fragments) = 1

\* fillMatches has returned the Match of a file name that holds the pattern twice.
C9_Witness ==
    /\ fmPc = "done"
    /\ msIn[1].fileName
    /\ Len(msIn) = 2
    /\ Len(result) = 1

\* The fragments of the Matches built so far, in order.
RECURSIVE FragmentsOf(_)
FragmentsOf(res) ==
    IF res = <<>> THEN <<>>
    ELSE FragmentsOf(SubSeq(res, 1, Len(res) - 1)) \o
         [i \in 1..Len(res[Len(res)].Fragments) |-> res[Len(res)].Fragments[i].Offset]
Offsets(cands) == [i \in 1..Len(cands) |-> cands[i].offset]

\* C10: every pass of the outer loop of fillContentMatches takes at least one
\* candidate off the queue, so no Match is without fragments, every candidate
\* is a fragment of exactly one Match, and the Matches are in ascending line
\* order.
C10_EveryPassConsumes ==
    ~msIn[1].fileName =>
        /\ fmPc = "extend" => Len(lineCands) >= 1
        /\ \A i \in 1..Len(result) : Len(result[i].Fragments) >= 1
        /\ Len(result) <= Len(msIn)
        /\ fmPc \in {"outer", "done"} => FragmentsOf(result) \o Offsets(ms) = Offsets(msIn)
        /\ \A i, j \in 1..Len(result) : i < j => result[i].LineNum < result[j].LineNum
====
